---------------------------- MODULE Spec2Model ----------------------------
(***************************************************************************)
(* State-machine model of sql_useful.py: BulkInserter (batched INSERT      *)
(* generation), parse_dbms_params (connection-parameter parsing),          *)
(* MySQLDBMS.iter_keys (grouping of SHOW KEYS rows) and                    *)
(* SQLiteDBMS.iter_keys (recovery of keys from stored index DDL).          *)
(***************************************************************************)
EXTENDS Integers, Sequences, FiniteSets, TLC

VARIABLES
    \* ---- BulkInserter object (src/sql_useful.py 279-291)
    table_name,         \* self.table_name
    field_names,        \* self.field_names
    ignore_duplicates,  \* self.ignore_duplicates
    field_values,       \* self.field_values: the buffered, already escaped records
    cursor,             \* self.cursor: "None" or "open"
    \* ---- the connection the inserter is bound to
    open_cursors,       \* cursors handed out by sql.cursor() and not yet closed
    \* ---- the caller of the inserter
    next_row,           \* position of the caller in its row stream
    last_call,          \* "none", "add_record" or "done_insert"
    raised,             \* how the last call ended: "no", or the exception it raised
    executed_now,       \* statements the last call handed to cursor.execute
    \* ---- observers of the inserter's history
    pending,            \* records accepted by add_record and not yet seen in a
                        \* successfully executed INSERT, oldest first
    mismatch,           \* some executed INSERT did not carry exactly the oldest
                        \* pending records, in order
    odd_accepted,       \* some positional argument of a length other than the
                        \* field list's has been buffered
    nadds,              \* add_record calls made (counted by the counting specifications)
    ninserts,           \* statements handed to cursor.execute (counted likewise)
    \* ---- the interpreter
    generator_stop,     \* whether a StopIteration raised inside a generator body
                        \* surfaces as RuntimeError (PEP 479: Python 3.7 and later)
                        \* or silently ends the generator (earlier interpreters)
    \* ---- MySQLDBMS.iter_keys, one generator run (src/sql_useful.py 170-195)
    key_rows,           \* the rows the "show keys" query returns
    key_pos,            \* rows the cursor has handed out so far
    last_key_name,      \* local last_key_name
    last_key_seq,       \* local last_key_seq ("unbound" before the first key)
    entry,              \* local entry ("unbound" before the first key)
    key_out,            \* the descriptors yielded so far
    key_pc,             \* "idle", "running", "done", or the exception that ended it
    \* ---- SQLiteDBMS.iter_keys, one generator run (src/sql_useful.py 250-266)
    re_bound,           \* whether the name re resolves in the module's namespace
    index_rows,         \* the rows of sqlite_master with type = 'index'
    sq_arg,             \* the table the caller asked about
    sq_table_name,      \* local table_name
    sq_pos,             \* rows the cursor has handed out so far
    sq_out,             \* the descriptors yielded so far
    sq_pc,              \* "idle", "running", "done", or the exception that ended it
    \* ---- parse_dbms_params, one call (src/sql_useful.py 342-396)
    paramsstr,          \* the argument: its ":"-separated items, each the list of
                        \* its "="-separated pieces
    par_pc,             \* "idle", "called", "returned", or the exception raised
    constructor_calls,  \* the DBMS class constructor calls made, with their arguments
    prompts             \* password prompts shown

insVars == <<table_name, field_names, ignore_duplicates, field_values, cursor,
             open_cursors, next_row, last_call, raised, executed_now,
             pending, mismatch, odd_accepted, nadds, ninserts>>

keyVars == <<key_rows, key_pos, last_key_name, last_key_seq, entry, key_out, key_pc>>

sqVars == <<re_bound, index_rows, sq_arg, sq_table_name, sq_pos, sq_out, sq_pc>>

parVars == <<paramsstr, par_pc, constructor_calls, prompts>>

vars == <<insVars, generator_stop, keyVars, sqVars, parVars>>

-----------------------------------------------------------------------------
(* Bounds of the model *)

\* the caller's row stream repeats with this period
RowCycle == 3
\* add_record calls explored by the adds-only specification
MaxAdds == 502
\* add_record calls explored by the specification with arbitrary input shapes
MaxShapeAdds == 3
\* rows of a "show keys" result
MaxKeyRows == 4
\* indexes in the SQLite schema
MaxIndexes == 2
\* param=value items in a parameter string
MaxParams == 2

-----------------------------------------------------------------------------
(* Python values and MySQLDBMS.string *)

None == [type |-> "NoneType"]
PyInt(n) == [type |-> "int", val |-> n]
\* a str value is the sequence of its characters
PyStr(chars) == [type |-> "str", val |-> chars]

RECURSIVE Join(_, _)
\* sep.join(strs)
Join(strs, sep) ==
    IF Len(strs) = 0 THEN ""
    ELSE IF Len(strs) = 1 THEN strs[1]
    ELSE strs[1] \o sep \o Join(Tail(strs), sep)

\* the per-character substitution of MySQLDBMS.string; a character is a
\* one-character string, the control characters go by their ASCII names
escape_char(ch) ==
    CASE ch = "NUL" -> "\\0"
      [] ch = "BS" -> "\\b"
      [] ch = "HT" -> "\\t"
      [] ch = "LF" -> "\\n"
      [] ch = "CR" -> "\\r"
      [] ch = "SUB" -> "\\z"
      [] ch = "'" -> "\\'"
      [] ch = "\"" -> "\\\""
      [] ch = "\\" -> "\\\\"
      [] OTHER -> ch

\* str(s) for the values of the model, as a sequence of characters
py_str(s) ==
    IF s.type = "int" THEN <<ToString(s.val)>> ELSE s.val

\* MySQLDBMS.string(s): the SQL literal that evaluates to s
string(s) ==
    IF s = None THEN "null"
    ELSE LET chars == py_str(s)
         IN "\"" \o Join([i \in 1..Len(chars) |-> escape_char(chars[i])], "") \o "\""

-----------------------------------------------------------------------------
(* BulkInserter *)

\* the keys of a mapping of the model in their order
Ascending_keys(S) ==
    SelectSeq(<<"a", "b", "c">>, LAMBDA k : k \in S)

\* self.insert_limit
insert_limit == 500

\* BulkInserter.__init__
InitInserter ==
    /\ table_name = "T"
    /\ field_names = <<"a", "b">>
    /\ ignore_duplicates \in BOOLEAN
    /\ field_values = <<>>
    /\ cursor = "None"
    /\ open_cursors = 0
    /\ next_row = 0
    /\ last_call = "none"
    /\ raised = "no"
    /\ executed_now = <<>>
    /\ pending = <<>>
    /\ mismatch = FALSE
    /\ odd_accepted = FALSE
    /\ nadds = 0
    /\ ninserts = 0

\* variant: the buffer is flushed only once it has grown past the ceiling
buffer_full_late(fv) == Len(fv) > insert_limit

\* variant: the buffer is flushed one record short of the ceiling
buffer_full_early(fv) == Len(fv) = insert_limit - 1

\* the test that opens add_record
buffer_full(fv) == Len(fv) = insert_limit

\* the statement done_insert builds, kept in the parts its text is written from:
\* the verb, the table, the field list, and the value-tuples in the order they
\* are written, each the list of its literals
build_insert(fv) ==
    [ verb |-> IF ignore_duplicates THEN "insert ignore" ELSE "insert",
      into |-> table_name,
      fields |-> field_names,
      values |-> fv ]

\* the text of a statement, as done_insert concatenates it
insert_text(stmt) ==
    stmt.verb \o " into " \o stmt.into \o " (" \o Join(stmt.fields, ", ") \o ") values"
    \o Join([i \in 1..Len(stmt.values) |-> " (" \o Join(stmt.values[i], ", ") \o ")"], ",")

\* variant: the buffer is not emptied after the execute
cleared_buffer_kept(fv) == fv

\* the buffer done_insert leaves behind after a successful execute
cleared_buffer(fv) == <<>>

\* BulkInserter.done_insert as a function of the object's state; fail tells whether
\* cursor.execute raises.  The result carries the object's new state, the
\* statements handed to cursor.execute and the exception that ends the call.
done_insert_result(fv, cur, oc, fail) ==
    IF Len(fv) # 0
    THEN IF cur = "None"
         THEN [fv |-> fv, cur |-> cur, oc |-> oc, executed |-> <<>>,
               raised |-> "AttributeError"]
         ELSE IF fail
         THEN [fv |-> fv, cur |-> cur, oc |-> oc,
               executed |-> <<[stmt |-> build_insert(fv), ok |-> FALSE]>>,
               raised |-> "execute"]
         ELSE [fv |-> cleared_buffer(fv), cur |-> "None", oc |-> oc - 1,
               executed |-> <<[stmt |-> build_insert(fv), ok |-> TRUE]>>,
               raised |-> "no"]
    ELSE [fv |-> fv, cur |-> cur, oc |-> oc, executed |-> <<>>, raised |-> "no"]

\* variant: a mapping is walked by its own keys instead of by the field list
this_record_by_keys(values) ==
    IF values.kind = "dict"
    THEN LET keys == Ascending_keys(DOMAIN values.map)
         IN [raised |-> "no",
             rec |-> [i \in 1..Len(keys) |-> string(values.map[keys[i]])]]
    ELSE [raised |-> "no",
          rec |-> [i \in 1..Len(values.items) |-> string(values.items[i])]]

\* the record add_record builds from its argument: the escaped literals, in
\* field-list order for a dict (KeyError when it lacks one of the field names),
\* in the argument's own order and length otherwise
this_record(values) ==
    IF values.kind = "dict"
    THEN IF \A i \in 1..Len(field_names) : field_names[i] \in DOMAIN values.map
         THEN [raised |-> "no",
               rec |-> [i \in 1..Len(field_names) |-> string(values.map[field_names[i]])]]
         ELSE [raised |-> "KeyError", rec |-> <<>>]
    ELSE [raised |-> "no",
          rec |-> [i \in 1..Len(values.items) |-> string(values.items[i])]]

\* the observers' view of one call: the successfully executed statements consume
\* the oldest pending records, an accepted record becomes pending
RECURSIVE consume(_, _)
consume(pend, stmts) ==
    IF Len(stmts) = 0 THEN [pending |-> pend, bad |-> FALSE]
    ELSE LET s == Head(stmts)
             n == Len(s.stmt.values)
             rest == consume(IF n <= Len(pend) THEN SubSeq(pend, n + 1, Len(pend)) ELSE <<>>,
                             Tail(stmts))
         IN IF ~s.ok THEN consume(pend, Tail(stmts))
            ELSE [pending |-> rest.pending,
                  bad |-> \/ rest.bad
                          \/ n > Len(pend)
                          \/ s.stmt.values # SubSeq(pend, 1, n)]

Observe(accepted) ==
    LET c == consume(pending, executed_now')
    IN /\ pending' = c.pending \o accepted
       /\ mismatch' = (mismatch \/ c.bad)

\* variant: at the ceiling the new record is appended before the flush instead of
\* after it
add_record_flush_after(fv, cur, oc, values, fail) ==
    LET built == this_record(values)
        appended == Append(fv, built.rec)
        flushed == IF buffer_full(fv)
                   THEN done_insert_result(appended, cur, oc, fail)
                   ELSE [fv |-> appended, cur |-> "open",
                         oc |-> IF cur = "None" THEN oc + 1 ELSE oc,
                         executed |-> <<>>, raised |-> "no"]
    IN IF built.raised # "no"
       THEN [fv |-> fv, cur |-> "open", oc |-> IF cur = "None" THEN oc + 1 ELSE oc,
             executed |-> <<>>, raised |-> built.raised, accepted |-> <<>>]
       ELSE [fv |-> flushed.fv, cur |-> flushed.cur, oc |-> flushed.oc,
             executed |-> flushed.executed, raised |-> flushed.raised,
             accepted |-> IF flushed.raised = "no" THEN <<built.rec>> ELSE <<>>]

\* BulkInserter.add_record(values) as a function of the object's state; fail tells
\* whether the cursor.execute of an automatic flush raises.  accepted holds the
\* record the call buffered, if it buffered one.
add_record_result(fv, cur, oc, values, fail) ==
    LET flushed == IF buffer_full(fv)
                   THEN done_insert_result(fv, cur, oc, fail)
                   ELSE [fv |-> fv, cur |-> cur, oc |-> oc,
                         executed |-> <<>>, raised |-> "no"]
        opened == IF flushed.cur = "None"
                  THEN [cur |-> "open", oc |-> flushed.oc + 1]
                  ELSE [cur |-> flushed.cur, oc |-> flushed.oc]
        built == this_record(values)
    IN IF flushed.raised # "no"
       THEN [fv |-> flushed.fv, cur |-> flushed.cur, oc |-> flushed.oc,
             executed |-> flushed.executed, raised |-> flushed.raised,
             accepted |-> <<>>]
       ELSE IF built.raised # "no"
       THEN [fv |-> flushed.fv, cur |-> opened.cur, oc |-> opened.oc,
             executed |-> flushed.executed, raised |-> built.raised,
             accepted |-> <<>>]
       ELSE [fv |-> Append(flushed.fv, built.rec), cur |-> opened.cur, oc |-> opened.oc,
             executed |-> flushed.executed, raised |-> "no",
             accepted |-> <<built.rec>>]

\* a call of add_record
add_record(values, fail) ==
    LET r == add_record_result(field_values, cursor, open_cursors, values, fail)
    IN /\ last_call' = "add_record"
       /\ executed_now' = r.executed
       /\ field_values' = r.fv
       /\ cursor' = r.cur
       /\ open_cursors' = r.oc
       /\ raised' = r.raised
       /\ Observe(r.accepted)
       /\ odd_accepted' = ( \/ odd_accepted
                            \/ /\ r.accepted # <<>>
                               /\ values.kind = "list"
                               /\ Len(values.items) # Len(field_names) )
       /\ UNCHANGED <<table_name, field_names, ignore_duplicates>>

\* a call of done_insert
done_insert(fail) ==
    LET r == done_insert_result(field_values, cursor, open_cursors, fail)
    IN /\ last_call' = "done_insert"
       /\ executed_now' = r.executed
       /\ field_values' = r.fv
       /\ cursor' = r.cur
       /\ open_cursors' = r.oc
       /\ raised' = r.raised
       /\ Observe(<<>>)
       /\ UNCHANGED <<table_name, field_names, ignore_duplicates, next_row, odd_accepted>>

-----------------------------------------------------------------------------
(* The caller's rows *)

\* the n-th row of the caller's stream, by field name
Row(n) ==
    [f \in {"a", "b"} |->
        IF f = "a" THEN PyInt(n)
        ELSE IF n % 2 = 0 THEN None ELSE PyStr(<<"o", "'", "k">>)]

\* the row as a mapping keyed by field name
AsDict(row) == [kind |-> "dict", map |-> row]
\* the row as a positional sequence in field-list order
AsList(row) == [kind |-> "list", items |-> [i \in 1..Len(field_names) |-> row[field_names[i]]]]

\* the two forms add_record documents
WellFormed(row) == {AsDict(row), AsList(row)}

\* every form the caller may pass: also a mapping with an extra key, a mapping
\* lacking a field, and positional sequences shorter and longer than the field list
AnyShape(row) ==
    WellFormed(row) \cup
    { [kind |-> "dict", map |-> [f \in {"a", "b", "c"} |-> IF f = "c" THEN None ELSE row[f]]],
      [kind |-> "dict", map |-> [f \in {"a"} |-> row[f]]],
      [kind |-> "list", items |-> <<row["a"]>>],
      [kind |-> "list", items |-> <<row["a"], row["b"], None>>] }

\* the caller passes its next row to add_record
AddRecord ==
    \E values \in WellFormed(Row(next_row)), fail \in BOOLEAN :
        /\ add_record(values, fail)
        /\ next_row' = (next_row + 1) % RowCycle
        /\ UNCHANGED <<nadds, ninserts>>

\* the caller flushes
DoneInsert ==
    \E fail \in BOOLEAN :
        /\ done_insert(fail)
        /\ UNCHANGED <<nadds, ninserts>>

\* the caller passes its next row in any shape, a bounded number of times
AddAnyShape ==
    \E values \in AnyShape(Row(next_row)), fail \in BOOLEAN :
        /\ nadds < MaxShapeAdds
        /\ add_record(values, fail)
        /\ next_row' = (next_row + 1) % RowCycle
        /\ nadds' = nadds + 1
        /\ UNCHANGED ninserts

\* the caller passes its next row and never flushes itself, a bounded number of
\* times; the calls and the statements handed to the cursor are counted
AddRecordCounted ==
    \E values \in WellFormed(Row(next_row)), fail \in BOOLEAN :
        /\ nadds < MaxAdds
        /\ add_record(values, fail)
        /\ next_row' = (next_row + 1) % RowCycle
        /\ nadds' = nadds + 1
        /\ ninserts' = ninserts + Len(executed_now')

-----------------------------------------------------------------------------
(* Row iteration and MySQLDBMS.iter_keys *)

\* next(keys, None) on the generator MySQLDBMS.iter returns: the next row of the
\* cursor; at the end of the result next(cursor) raises StopIteration inside the
\* generator body, which ends the generator (next returns its default, None) or,
\* under PEP 479, surfaces from next as RuntimeError
next_item(rows, pos, gs) ==
    IF pos < Len(rows) THEN [kind |-> "row", item |-> rows[pos + 1]]
    ELSE IF gs THEN [kind |-> "RuntimeError"]
    ELSE [kind |-> "None"]

\* variant: any larger sequence number is accepted
seq_in_order_loose(key_seq, last_seq) == key_seq > last_seq

\* the assertion of iter_keys
seq_in_order(key_seq, last_seq) == key_seq = last_seq + 1

\* the names of the keys of the table, in the order of the server's listing
KeyOrder == <<"k1", "k2">>
KeyNames == {KeyOrder[i] : i \in 1..Len(KeyOrder)}
ColumnNames == {"x", "y"}
\* the sequence numbers a listing may carry, in or out of order
SeqNumbers == {1, 2, 3}

\* the rows "show keys" can list: Non_unique (item[1]), Key_name (item[2]),
\* Seq_in_index (item[3]) and Column_name (item[4]); Non_unique belongs to the key
KeyRow ==
    { [non_unique |-> IF k = "k1" THEN 0 ELSE 1, key_name |-> k,
       seq_in_index |-> q, column_name |-> c] :
        k \in KeyNames, q \in SeqNumbers, c \in ColumnNames }

\* the rows of one key are listed together
Grouped(rows) ==
    \A i, j \in 1..Len(rows) :
        (i < j /\ rows[i].key_name = rows[j].key_name)
            => \A m \in i..j : rows[m].key_name = rows[i].key_name

\* the call iter_keys(table_name) up to the first next(): any grouped listing,
\* whatever its sequence numbers
InitKeys ==
    /\ key_rows \in { rows \in UNION { [1..n -> KeyRow] : n \in 0..MaxKeyRows } : Grouped(rows) }
    /\ key_pos = 0
    /\ last_key_name = "None"
    /\ last_key_seq = "unbound"
    /\ entry = "unbound"
    /\ key_out = <<>>
    /\ key_pc = "running"

\* no iter_keys generator is running
IdleKeys ==
    /\ key_rows = <<>>
    /\ key_pos = 0
    /\ last_key_name = "None"
    /\ last_key_seq = "unbound"
    /\ entry = "unbound"
    /\ key_out = <<>>
    /\ key_pc = "idle"

\* one turn of the loop of iter_keys, the consumer taking what it yields
iter_keys_step ==
    /\ key_pc = "running"
    /\ LET nxt == next_item(key_rows, key_pos, generator_stop)
       IN IF nxt.kind = "RuntimeError"
          THEN /\ key_pc' = "RuntimeError"
               /\ UNCHANGED <<key_pos, last_key_name, last_key_seq, entry, key_out>>
          ELSE IF nxt.kind = "None"
          THEN /\ key_out' = IF last_key_name # "None" THEN Append(key_out, entry) ELSE key_out
               /\ key_pc' = "done"
               /\ UNCHANGED <<key_pos, last_key_name, last_key_seq, entry>>
          ELSE LET item == nxt.item
                   new_key == item.key_name # last_key_name
                   started == IF new_key
                              THEN [name |-> item.key_name, unique |-> (item.non_unique = 0),
                                    fields |-> <<>>]
                              ELSE entry
                   seq == IF new_key THEN 0 ELSE last_key_seq
               IN /\ key_pos' = key_pos + 1
                  /\ key_out' = IF new_key /\ last_key_name # "None"
                                THEN Append(key_out, entry) ELSE key_out
                  /\ last_key_name' = item.key_name
                  /\ IF seq_in_order(item.seq_in_index, seq)
                     THEN /\ entry' = [started EXCEPT !.fields = Append(@, item.column_name)]
                          /\ last_key_seq' = item.seq_in_index
                          /\ key_pc' = "running"
                     ELSE /\ entry' = started
                          /\ last_key_seq' = seq
                          /\ key_pc' = "AssertionError"
    /\ UNCHANGED <<key_rows, generator_stop>>

-----------------------------------------------------------------------------
(* SQLiteDBMS.iter_keys *)

\* A stored statement is modelled by its tokens, single blanks between them; the
\* empty sequence stands for the NULL that sqlite_master holds for an index the
\* engine created on its own.

\* str.lower on the keywords (re.IGNORECASE)
Lower(tok) ==
    CASE tok = "CREATE" -> "create"
      [] tok = "UNIQUE" -> "unique"
      [] tok = "INDEX" -> "index"
      [] tok = "ON" -> "on"
      [] OTHER -> tok

\* whether the token matches \w+
IsWord(tok) == tok \notin {"(", ")", ",", ">", "\"i1\"", "\"i2\"", "\"i3\""}

RECURSIVE split_commas(_)
\* group(4).split(","), each piece stripped
split_commas(toks) ==
    IF \A i \in 1..Len(toks) : toks[i] # "," THEN <<Join(toks, " ")>>
    ELSE LET c == CHOOSE i \in 1..Len(toks) :
                      toks[i] = "," /\ \A j \in 1..(i - 1) : toks[j] # ","
         IN <<Join(SubSeq(toks, 1, c - 1), " ")>> \o split_commas(SubSeq(toks, c + 1, Len(toks)))

\* re.search(r"^create( unique)? index (\w+) on (\w+)\s*\(([^\)]+)\)", item, re.IGNORECASE)
re_search(toks) ==
    LET n == Len(toks)
        uniq == n >= 2 /\ Lower(toks[2]) = "unique"
        p == IF uniq THEN 3 ELSE 2
        closes == {j \in (p + 5)..n : toks[j] = ")"}
        close == CHOOSE j \in closes : \A k \in closes : j <= k
        matched == /\ n >= p + 6
                   /\ Lower(toks[1]) = "create"
                   /\ Lower(toks[p]) = "index"
                   /\ IsWord(toks[p + 1])
                   /\ Lower(toks[p + 2]) = "on"
                   /\ IsWord(toks[p + 3])
                   /\ toks[p + 4] = "("
                   /\ closes # {}
                   /\ close > p + 5
    IN IF matched
       THEN [matched |-> TRUE, group1 |-> uniq, group2 |-> toks[p + 1],
             group3 |-> toks[p + 3], group4 |-> SubSeq(toks, p + 5, close - 1)]
       ELSE [matched |-> FALSE]

IndexNames == {"i1", "i2", "i3"}
TableNames == {"t1", "t2"}

\* the text stored for an index, in the forms CREATE INDEX is written in
IndexSql(form, name, table) ==
    CASE form = "plain" -> <<"CREATE", "INDEX", name, "ON", table, "(", "a", ")">>
      [] form = "unique" ->
            <<"create", "unique", "index", name, "on", table, "(", "a", ",", "b", ")">>
      [] form = "partial" ->
            <<"CREATE", "INDEX", name, "ON", table, "(", "b", "DESC", ",", "a", ")",
              "WHERE", "a", ">", "0">>
      [] form = "guarded" ->
            <<"CREATE", "INDEX", "IF", "NOT", "EXISTS", name, "ON", table, "(", "a", ")">>
      [] form = "quoted" ->
            <<"CREATE", "INDEX", "\"" \o name \o "\"", "ON", table, "(", "a", ")">>
      [] OTHER -> <<>>

\* the rows sqlite_master can hold for indexes
IndexRow ==
    { [name |-> nm, tbl_name |-> tb, sql |-> IndexSql(form, nm, tb)] :
        nm \in IndexNames, tb \in TableNames,
        form \in {"plain", "unique", "partial", "guarded", "quoted", "auto"} }

\* the call iter_keys(table_name) up to the first next(): any schema of indexes
\* with distinct names
InitSqlite ==
    /\ re_bound \in BOOLEAN
    /\ index_rows \in { rows \in UNION { [1..n -> IndexRow] : n \in 0..MaxIndexes } :
                            \A i, j \in 1..Len(rows) : i # j => rows[i].name # rows[j].name }
    /\ sq_arg \in TableNames
    /\ sq_table_name = sq_arg
    /\ sq_pos = 0
    /\ sq_out = <<>>
    /\ sq_pc = "running"

\* no SQLite iter_keys generator is running
IdleSqlite ==
    /\ re_bound = FALSE
    /\ index_rows = <<>>
    /\ sq_arg = "t1"
    /\ sq_table_name = "t1"
    /\ sq_pos = 0
    /\ sq_out = <<>>
    /\ sq_pc = "idle"

\* the rows of "select sql from sqlite_master where type = 'index'", mapped
\* through x[0]
index_sql(rows) == [i \in 1..Len(rows) |-> rows[i].sql]

\* one turn of the for loop of SQLiteDBMS.iter_keys, the consumer taking what it
\* yields
sqlite_iter_keys_step ==
    /\ sq_pc = "running"
    /\ LET nxt == next_item(index_sql(index_rows), sq_pos, generator_stop)
       IN IF nxt.kind = "RuntimeError"
          THEN /\ sq_pc' = "RuntimeError"
               /\ UNCHANGED <<sq_pos, sq_table_name, sq_out>>
          ELSE IF nxt.kind = "None"
          THEN /\ sq_pc' = "done"
               /\ UNCHANGED <<sq_pos, sq_table_name, sq_out>>
          ELSE /\ sq_pos' = sq_pos + 1
               /\ IF ~re_bound
                  THEN /\ sq_pc' = "NameError"
                       /\ UNCHANGED <<sq_table_name, sq_out>>
                  ELSE IF nxt.item = <<>>
                  THEN /\ sq_pc' = "TypeError"
                       /\ UNCHANGED <<sq_table_name, sq_out>>
                  ELSE LET match == re_search(nxt.item)
                       IN IF ~match.matched
                          THEN /\ sq_pc' = "AttributeError"
                               /\ UNCHANGED <<sq_table_name, sq_out>>
                          ELSE /\ sq_table_name' = match.group3
                               /\ sq_out' = Append(sq_out,
                                                [name |-> match.group2,
                                                 unique |-> match.group1,
                                                 fields |-> split_commas(match.group4)])
                               /\ sq_pc' = "running"
    /\ UNCHANGED <<re_bound, index_rows, sq_arg, generator_stop>>

-----------------------------------------------------------------------------
(* parse_dbms_params *)

\* DBMSClasses
DBMSClasses == {"mysql", "sqlite"}

\* dbms_class.conn_parm_names: the converter of each constructor argument
conn_parm_names(dbmstype) ==
    IF dbmstype = "mysql"
    THEN [k \in {"database", "host", "password", "port", "user"} |->
             IF k = "port" THEN "int" ELSE "str"]
    ELSE [k \in {"create", "filename", "write"} |->
             IF k = "filename" THEN "str" ELSE "parse_bool"]

\* the first character of the texts of the model, lowered (s[0].lower()); the
\* empty text has none
first_lower(s) ==
    CASE s = "3306" -> "3"
      [] s = "x" -> "x"
      [] s = "Yes" -> "y"
      [] s = "a=b" -> "a"
      [] s = "pw" -> "p"

\* parse_bool(s)
parse_bool(s) ==
    IF s = "" THEN [raised |-> "IndexError"]
    ELSE LET c == first_lower(s)
         IN IF c \in {"y", "t", "1"} THEN [raised |-> "no", value |-> TRUE]
            ELSE IF c \in {"n", "f", "0"} THEN [raised |-> "no", value |-> FALSE]
            ELSE [raised |-> "ValueError"]

\* int(s) on the texts of the model
int(s) ==
    IF s = "3306" THEN [raised |-> "no", value |-> 3306] ELSE [raised |-> "ValueError"]

\* the call of a converter named in conn_parm_names
convert(converter, s) ==
    CASE converter = "str" -> [raised |-> "no", value |-> s]
      [] converter = "int" -> int(s)
      [] converter = "parse_bool" -> parse_bool(s)

\* item.split("=", 1) on an item given by its "="-separated pieces
split_once(item) ==
    IF Len(item) = 1 THEN <<item[1]>>
    ELSE <<item[1], Join(Tail(item), "=")>>

\* variant: the parameter "create" is accepted like any declared parameter
recognized_any_declared(keyword, dbmstype) == keyword \in DOMAIN conn_parm_names(dbmstype)

\* the test that admits a keyword
recognized(keyword, dbmstype) ==
    keyword \in DOMAIN conn_parm_names(dbmstype) /\ keyword # "create"

RECURSIVE scan_items(_, _, _, _)
\* the for loop over items[1:]: the parameters collected, the keywords not
\* recognized, and the exception that cut the loop short, if any
scan_items(items, dbmstype, conn_params, unrecognized) ==
    IF Len(items) = 0
    THEN [raised |-> "no", conn_params |-> conn_params, unrecognized |-> unrecognized]
    ELSE LET pair == split_once(Head(items))
         IN IF Len(pair) # 2
            THEN [raised |-> "ValueError", conn_params |-> conn_params,
                  unrecognized |-> unrecognized]
            ELSE LET keyword == pair[1]
                     value == pair[2]
                 IN IF recognized(keyword, dbmstype)
                    THEN LET conv == convert(conn_parm_names(dbmstype)[keyword], value)
                         IN IF conv.raised # "no"
                            THEN [raised |-> conv.raised, conn_params |-> conn_params,
                                  unrecognized |-> unrecognized]
                            ELSE scan_items(Tail(items), dbmstype,
                                     [k \in DOMAIN conn_params \cup {keyword} |->
                                         IF k = keyword THEN conv.value ELSE conn_params[k]],
                                     unrecognized)
                    ELSE scan_items(Tail(items), dbmstype, conn_params,
                                    unrecognized \cup {keyword})

\* the keyword arguments MySQLDBMS.__init__ passes to mysql.connector.connect
mysql_connect_args(parms) ==
    LET rename(k) == IF k = "database" THEN "db" ELSE IF k = "password" THEN "passwd" ELSE k
        names == {rename(k) : k \in DOMAIN parms} \cup {"buffered"}
    IN [n \in names |->
           IF n = "buffered" THEN TRUE
           ELSE IF n = "db" THEN parms["database"]
           ELSE IF n = "passwd" THEN parms["password"]
           ELSE parms[n]]

\* the pieces an item is written from
Keywords == {"host", "port", "password", "filename", "write", "create", "bogus"}
Texts == {"", "3306", "x", "Yes"}

\* the items of a parameter string: key=value, a bare word without "=", and a
\* value that itself holds a "="
Items ==
    { <<k, v>> : k \in Keywords, v \in Texts }
    \cup { <<k>> : k \in Keywords }
    \cup { <<"host", "a", "b">> }

\* the caller holds a parameter string: a first item without "=" followed by
\* further items (the empty string is the single empty item)
InitParams ==
    /\ paramsstr \in { <<<<d>>>> \o rest :
                          d \in {"mysql", "sqlite", "", "pgsql"},
                          rest \in UNION { [1..n -> Items] : n \in 0..MaxParams } }
    /\ par_pc = "called"
    /\ constructor_calls = <<>>
    /\ prompts = 0

\* no parse_dbms_params call is under way
IdleParams ==
    /\ paramsstr = <<<<"">>>>
    /\ par_pc = "idle"
    /\ constructor_calls = <<>>
    /\ prompts = 0

\* parse_dbms_params(paramsstr, doing_what); typed is what the user types at the
\* password prompt, connects whether the constructor's connection succeeds
parse_dbms_params(typed, connects) ==
    /\ par_pc = "called"
    /\ LET items == paramsstr
           dbmstype == Join(items[1], "=")
       IN IF Len(items) = 0 \/ dbmstype \notin DBMSClasses
          THEN /\ par_pc' = "GetoptError"
               /\ UNCHANGED <<constructor_calls, prompts>>
          ELSE LET scanned == scan_items(Tail(items), dbmstype, <<>>, {})
               IN IF scanned.raised # "no"
                  THEN /\ par_pc' = scanned.raised
                       /\ UNCHANGED <<constructor_calls, prompts>>
                  ELSE IF scanned.unrecognized # {}
                  THEN /\ par_pc' = "GetoptError"
                       /\ UNCHANGED <<constructor_calls, prompts>>
                  ELSE LET ask == "password" \in DOMAIN scanned.conn_params
                                      /\ scanned.conn_params["password"] = ""
                           conn_params ==
                               IF ask THEN [scanned.conn_params EXCEPT !["password"] = typed]
                               ELSE scanned.conn_params
                       IN /\ prompts' = IF ask THEN prompts + 1 ELSE prompts
                          /\ constructor_calls' =
                                 Append(constructor_calls,
                                        [class |-> dbmstype,
                                         args |-> IF dbmstype = "mysql"
                                                  THEN mysql_connect_args(conn_params)
                                                  ELSE conn_params])
                          /\ par_pc' = IF dbmstype = "sqlite"
                                          /\ "filename" \notin DOMAIN conn_params
                                       THEN "TypeError"
                                       ELSE IF connects THEN "returned" ELSE "ConnectionError"
    /\ UNCHANGED paramsstr

\* the call, with what its surroundings may answer
ParseDbmsParams ==
    \E typed \in {"", "pw"}, connects \in BOOLEAN : parse_dbms_params(typed, connects)

-----------------------------------------------------------------------------
(* Specifications *)

\* the inserter at rest, for the specifications of the other components
IdleInserter == InitInserter /\ ~ignore_duplicates

\* the interpreter when no generator is involved
IdleInterpreter == generator_stop = FALSE

Init == InitInserter /\ IdleInterpreter /\ IdleKeys /\ IdleSqlite /\ IdleParams

\* what a call on the inserter leaves alone
OthersIdle == UNCHANGED <<generator_stop, keyVars, sqVars, parVars>>

Next ==
    \/ AddRecord /\ OthersIdle
    \/ DoneInsert /\ OthersIdle

\* the inserter under any interleaving of add_record and done_insert calls
Spec == Init /\ [][Next]_vars

NextStream == AddRecordCounted /\ OthersIdle

\* the inserter fed by add_record calls alone
SpecStream == Init /\ [][NextStream]_vars

NextShape ==
    \/ AddAnyShape /\ OthersIdle
    \/ DoneInsert /\ OthersIdle

\* the inserter fed arguments of any shape
SpecShape == Init /\ [][NextShape]_vars

InitKeysRun ==
    IdleInserter /\ generator_stop \in BOOLEAN /\ InitKeys /\ IdleSqlite /\ IdleParams

NextKeys == iter_keys_step /\ UNCHANGED <<insVars, sqVars, parVars>>

\* one run of MySQLDBMS.iter_keys, consumed to its end
SpecKeys == InitKeysRun /\ [][NextKeys]_vars

InitSqliteRun ==
    IdleInserter /\ generator_stop \in BOOLEAN /\ IdleKeys /\ InitSqlite /\ IdleParams

NextSqlite == sqlite_iter_keys_step /\ UNCHANGED <<insVars, keyVars, parVars>>

\* one run of SQLiteDBMS.iter_keys, consumed to its end
SpecSqlite == InitSqliteRun /\ [][NextSqlite]_vars

InitParamsRun == IdleInserter /\ IdleInterpreter /\ IdleKeys /\ IdleSqlite /\ InitParams

NextParams == ParseDbmsParams /\ UNCHANGED <<insVars, generator_stop, keyVars, sqVars>>

\* one call of parse_dbms_params
SpecParams == InitParamsRun /\ [][NextParams]_vars

-----------------------------------------------------------------------------
(* Claims about the inserter under Spec *)

\* C1: in every reachable state the number of buffered records is at most the
\* batch ceiling insert_limit = 500.
C1_BufferWithinLimit == Len(field_values) <= insert_limit

\* an add_record call found the buffer at the ceiling, its flush failed, and the
\* buffer still holds the 500 records and nothing more
C1_Witness ==
    /\ last_call = "add_record"
    /\ raised = "execute"
    /\ Len(field_values) = insert_limit

\* C3: when add_record is called while the buffer holds 500 records and returns
\* normally, exactly one INSERT was executed, successfully, carrying exactly the
\* 500 records buffered before the call, and on return the buffer holds exactly
\* the record built from the call's argument.
C3_FlushBeforeBuffering ==
    [][ ( /\ Len(field_values) = insert_limit
          /\ last_call' = "add_record"
          /\ raised' = "no" )
        => ( /\ Len(executed_now') = 1
             /\ executed_now'[1].ok
             /\ executed_now'[1].stmt.values = field_values
             /\ field_values' = <<this_record(AsList(Row(next_row))).rec>> ) ]_vars

\* an add_record call has just flushed 500 records and buffered its own
C3_Witness ==
    /\ last_call = "add_record"
    /\ raised = "no"
    /\ Len(executed_now) = 1
    /\ executed_now[1].ok
    /\ Len(executed_now[1].stmt.values) = insert_limit
    /\ Len(field_values) = 1

\* C4: whenever a done_insert call returns normally, the value-tuples of the
\* INSERT statements executed so far, concatenated in execution order, are the
\* records added so far in the order added (no record is pending, no statement
\* ever carried anything but the oldest pending records), the buffer is empty,
\* and no statement handed to the cursor has zero value-tuples.
C4_AllRecordsInserted ==
    /\ \A i \in 1..Len(executed_now) : Len(executed_now[i].stmt.values) > 0
    /\ (last_call = "done_insert" /\ raised = "no")
         => (pending = <<>> /\ ~mismatch /\ field_values = <<>>)

\* a done_insert call has just executed a statement of several value-tuples
C4_Witness ==
    /\ last_call = "done_insert"
    /\ raised = "no"
    /\ Len(executed_now) = 1
    /\ executed_now[1].ok
    /\ Len(executed_now[1].stmt.values) > 1
    /\ pending = <<>>

\* C5: after a flush whose statement execution raises, the inserter holds no
\* open cursor.
C5_CursorReleasedOnFailure ==
    raised = "execute" => (cursor = "None" /\ open_cursors = 0)

-----------------------------------------------------------------------------
(* Claims about the inserter under SpecStream and SpecShape *)

\* C2, as stated: after exactly 500 add_record calls and no explicit done_insert
\* call exactly one INSERT statement has been executed, carrying 500 value-tuples.
C2_FlushAtCeiling ==
    nadds = insert_limit
        => ( /\ ninserts = 1
             /\ Len(executed_now) = 1
             /\ Len(executed_now[1].stmt.values) = insert_limit )

\* C2, amended: through the first 500 add_record calls no statement is executed
\* and every record stays buffered; it is the 501st call that triggers the one
\* automatic flush, a statement of 500 value-tuples.
C2_FlushOnNextRecord ==
    /\ nadds <= insert_limit => (ninserts = 0 /\ Len(field_values) = nadds)
    /\ nadds = insert_limit + 1
         => ( /\ ninserts = 1
              /\ Len(executed_now) = 1
              /\ Len(executed_now[1].stmt.values) = insert_limit )

\* 501 add_record calls have been made and the flush of the 501st succeeded
C2_Witness ==
    /\ nadds = insert_limit + 1
    /\ ninserts = 1
    /\ raised = "no"
    /\ Len(field_values) = 1

\* C10, as stated: whatever add_record accepted, every buffered record, and every
\* value-tuple of every statement handed to the cursor, has exactly as many
\* literals as the field-name list.
C10_TuplesMatchFieldList ==
    /\ \A i \in 1..Len(field_values) : Len(field_values[i]) = Len(field_names)
    /\ \A i \in 1..Len(executed_now) :
          \A j \in 1..Len(executed_now[i].stmt.values) :
              Len(executed_now[i].stmt.values[j]) = Len(field_names)

\* C10, amended: as long as every positional argument buffered had the field
\* list's length (mappings may hold further keys), every buffered record, and
\* every value-tuple of every statement handed to the cursor, has exactly as
\* many literals as the field-name list.
C10_MatchingInputsMatchFieldList ==
    ~odd_accepted => C10_TuplesMatchFieldList

\* a statement of several value-tuples, built from arguments of matching length
\* only, has been executed
C10_Witness ==
    /\ ~odd_accepted
    /\ Len(executed_now) = 1
    /\ Len(executed_now[1].stmt.values) = MaxShapeAdds

-----------------------------------------------------------------------------
(* Claims about MySQLDBMS.iter_keys under SpecKeys *)

RECURSIVE Ascending(_)
\* the members of a set of numbers in ascending order
Ascending(S) ==
    IF S = {} THEN <<>>
    ELSE LET least == CHOOSE x \in S : \A y \in S : x <= y
         IN <<least>> \o Ascending(S \ {least})

\* the rank of a key name in the listing order
Rank(name) == CHOOSE i \in 1..Len(KeyOrder) : KeyOrder[i] = name

\* the listing is ordered by key name
OrderedByName(rows) ==
    \A i, j \in 1..Len(rows) : i < j => Rank(rows[i].key_name) <= Rank(rows[j].key_name)

\* the sequence number the row at position i must carry: 1 for the first row of
\* a key, one more than the previous row's otherwise
DueSeq(rows, i) ==
    IF i = 1 \/ rows[i - 1].key_name # rows[i].key_name THEN 1
    ELSE rows[i - 1].seq_in_index + 1

\* the positions whose sequence number is not the one due
OutOfSequence(rows) == {i \in 1..Len(rows) : rows[i].seq_in_index # DueSeq(rows, i)}

\* the descriptors the listing describes: one per key name in order of first
\* appearance, with the key's columns in listing order
Described(rows) ==
    LET firsts == Ascending({i \in 1..Len(rows) :
                                \A j \in 1..(i - 1) : rows[j].key_name # rows[i].key_name})
        members(name) == Ascending({i \in 1..Len(rows) : rows[i].key_name = name})
    IN [k \in 1..Len(firsts) |->
           LET first == rows[firsts[k]]
               at == members(first.key_name)
           IN [name |-> first.key_name,
               unique |-> (first.non_unique = 0),
               fields |-> [m \in 1..Len(at) |-> rows[at[m]].column_name]]]

\* C7: for a listing ordered by key name and by field sequence 1..n within each
\* key, the finished run has yielded exactly one descriptor per key name, in
\* listing order, each with the key's field names in sequence order, the last
\* key included; an empty listing yields none.
C7_KeysGrouped ==
    (key_pc \notin {"idle", "running"} /\ OrderedByName(key_rows) /\ OutOfSequence(key_rows) = {})
        => key_out = Described(key_rows)

\* the same, on an interpreter where StopIteration ends the row generator quietly
KeysGroupedLegacy == ~generator_stop => C7_KeysGrouped

\* C8: when a row's sequence number is not the one due, the run halts with the
\* failed assertion at that row: no row after it is taken from the cursor, no
\* descriptor of that row's key is ever yielded, and the run never ends any
\* other way.
C8_HaltsOnSequenceGap ==
    LET bad == OutOfSequence(key_rows)
    IN IF bad = {}
       THEN key_pc # "AssertionError"
       ELSE LET v == CHOOSE i \in bad : \A j \in bad : i <= j
            IN /\ key_pos <= v
               /\ \A k \in 1..Len(key_out) : key_out[k].name # key_rows[v].key_name
               /\ key_pc \in {"running", "AssertionError"}
               /\ key_pc = "AssertionError" <=> key_pos = v

\* the assertion failed on a row of the second key, after the first key was
\* yielded, with rows still unread
C8_Witness ==
    /\ key_pc = "AssertionError"
    /\ Len(key_out) = 1
    /\ Len(entry.fields) = 1
    /\ key_pos < Len(key_rows)

-----------------------------------------------------------------------------
(* Claims about SQLiteDBMS.iter_keys under SpecSqlite *)

-----------------------------------------------------------------------------
(* Claims about parse_dbms_params under SpecParams *)

\* a later item without "=", a missing or unknown backend identifier, a
\* parameter the backend does not declare, or the parameter "create"
Unusable(items) ==
    LET dbmstype == Join(items[1], "=")
    IN \/ \E i \in 2..Len(items) : Len(items[i]) = 1
       \/ dbmstype \notin DBMSClasses
       \/ \E i \in 2..Len(items) :
              \/ items[i][1] \notin DOMAIN conn_parm_names(dbmstype)
              \/ items[i][1] = "create"

\* C6: a call with an unusable parameter string ends in getopt.GetoptError and
\* makes no constructor call.
C6_UsageErrorBeforeConnect ==
    (par_pc \notin {"idle", "called"} /\ Unusable(paramsstr))
        => (par_pc = "GetoptError" /\ constructor_calls = <<>>)

=============================================================================
